---- MODULE Spec2Model ----
(***************************************************************************)
(* The scenario-calculation engine of the energy dashboard                 *)
(* (utils/scenarioCalculation.ts: calculateScenario), as a state machine.  *)
(*                                                                         *)
(* JavaScript numbers are modelled as extended rationals n/d in lowest     *)
(* terms with d >= 0: d > 0 is a finite value, 1/0 is Infinity, -1/0 is    *)
(* -Infinity and 0/0 is NaN.  A read past the end of an array yields       *)
(* undefined, which arithmetic converts to NaN.  Arithmetic is exact: the  *)
(* rounding error and the overflow of IEEE doubles are not modelled.       *)
(***************************************************************************)
EXTENDS Integers, Sequences, FiniteSets, TLC

\* Longest generated baseline series (the 8-interval example baseline of the
\* test-suite is added to the generated ones as it is).
MaxLen == 2

\* Most calls one session of callers makes, one after the other.
MaxCalls == 3

\* Most log entries one logger session creates.
MaxLogCalls == 3

\* Most registrations in the logger's listener list.
MaxListeners == 2

(***************************************************************************)
(* Numbers                                                                 *)
(***************************************************************************)
Abs(x) == IF x < 0 THEN -x ELSE x

RECURSIVE GCD(_, _)
GCD(a, b) == IF b = 0 THEN a ELSE GCD(b, a % b)

NaN == [kind |-> "number", n |-> 0, d |-> 0]

Undefined == [kind |-> "undefined", n |-> 0, d |-> 0]

\* The number n/d, in lowest terms with a non-negative denominator.
Num(n, d) ==
  IF n = 0 /\ d = 0 THEN NaN
  ELSE LET s == IF d < 0 THEN -1 ELSE 1
           g == GCD(Abs(n), Abs(d))
       IN [kind |-> "number", n |-> (s * n) \div g, d |-> (s * d) \div g]

Infinity == Num(1, 0)

NegInfinity == Num(-1, 0)

Zero == Num(0, 1)

\* ToNumber: undefined converts to NaN.
ToNumber(x) == IF x.kind = "number" THEN x ELSE NaN

IsNaN(x) == ToNumber(x) = NaN

IsFinite(x) == x.kind = "number" /\ x.d > 0

Add(x, y) ==
  LET a == ToNumber(x)
      b == ToNumber(y)
  IN IF a.d = 0 /\ b.d = 0
     THEN (IF a = b THEN a ELSE NaN)
     ELSE Num(a.n * b.d + b.n * a.d, a.d * b.d)

Neg(x) == LET a == ToNumber(x) IN Num(-a.n, a.d)

Sub(x, y) == Add(x, Neg(y))

Mul(x, y) ==
  LET a == ToNumber(x)
      b == ToNumber(y)
  IN Num(a.n * b.n, a.d * b.d)

Div(x, y) ==
  LET a == ToNumber(x)
      b == ToNumber(y)
  IN IF b.n < 0 THEN Num(-(a.n * b.d), a.d * (-b.n))
     ELSE Num(a.n * b.d, a.d * b.n)

\* x > y and x < y: false as soon as one side is NaN or undefined.
Gt(x, y) ==
  LET a == ToNumber(x)
      b == ToNumber(y)
  IN /\ a # NaN
     /\ b # NaN
     /\ IF a.d = 0 /\ b.d = 0 THEN a.n > b.n ELSE a.n * b.d > b.n * a.d

Lt(x, y) == Gt(y, x)

Ge(x, y) == LET a == ToNumber(x) IN a # NaN /\ (Gt(x, y) \/ a = ToNumber(y))

Le(x, y) == Ge(y, x)

\* Math.min and Math.max of two arguments: NaN when either is NaN.
MathMin(x, y) ==
  IF IsNaN(x) \/ IsNaN(y) THEN NaN
  ELSE IF Lt(ToNumber(y), ToNumber(x)) THEN ToNumber(y) ELSE ToNumber(x)

MathMax(x, y) ==
  IF IsNaN(x) \/ IsNaN(y) THEN NaN
  ELSE IF Gt(ToNumber(y), ToNumber(x)) THEN ToNumber(y) ELSE ToNumber(x)

\* Math.max(...arr): -Infinity for the empty array.
RECURSIVE MathMaxOf(_)
MathMaxOf(arr) ==
  IF arr = <<>> THEN NegInfinity
  ELSE MathMax(Head(arr), MathMaxOf(Tail(arr)))

\* Math.round: the nearest integer, halves towards +Infinity.
MathRound(x) ==
  LET a == ToNumber(x)
  IN IF a.d = 0 THEN a ELSE Num((2 * a.n + a.d) \div (2 * a.d), 1)

\* arr[i] for the 0-based index i.
At(arr, i) == IF i + 1 \in 1..Len(arr) THEN arr[i + 1] ELSE Undefined

\* arr.reduce((sum, val) => sum + val, 0)
RECURSIVE SumFrom(_, _)
SumFrom(acc, arr) ==
  IF arr = <<>> THEN acc ELSE SumFrom(Add(acc, Head(arr)), Tail(arr))

Sum(arr) == SumFrom(Zero, arr)

(***************************************************************************)
(* Values of the engine                                                    *)
(***************************************************************************)
\* A field the caller's options object does not have.
Absent == [kind |-> "absent", n |-> 0, d |-> 0]

DEFAULT_CALCULATION_OPTIONS ==
  [hours_per_day |-> Num(4, 1),
   self_consumption_share |-> Num(6, 10),
   co2_emission_factor |-> Num(4, 10)]

\* The options parameter's default value {}.
NoOptions ==
  [hours_per_day |-> Absent,
   self_consumption_share |-> Absent,
   co2_emission_factor |-> Absent]

\* The module-level object DEFAULT_CALCULATION_OPTIONS, as it is now: the one
\* piece of state that outlives a call.
VARIABLE defaults

\* Variant: { ...options, ...DEFAULT_CALCULATION_OPTIONS }, the defaults win.
MergeOptionsDefaultsWin(options) ==
  [k \in DOMAIN DEFAULT_CALCULATION_OPTIONS |-> defaults[k]]

\* { ...DEFAULT_CALCULATION_OPTIONS, ...options }: a new object in which
\* every field the options object has replaces the default.
MergeOptions(options) ==
  [k \in DOMAIN DEFAULT_CALCULATION_OPTIONS |->
     IF options[k] = Absent THEN defaults[k] ELSE options[k]]

\* Variant: Object.assign(DEFAULT_CALCULATION_OPTIONS, options), which writes
\* the caller's fields into the shared defaults.
DefaultsAfterAssign(options) == MergeOptions(options)

\* The defaults object after the merge: the spread only reads it.
DefaultsAfterMerge(options) == defaults

\* The identities of the two arrays of the caller's Baseline object.
BaselineArrays ==
  [consumption |-> "baseline.consumption",
   pv_generation |-> "baseline.pv_generation"]

\* No Scenario object exists.
NoArrays == [consumption |-> "none", pv_generation |-> "none"]

\* Variant: the scenario starts as the baseline's own arrays.
ScenarioAliasingBaseline == BaselineArrays

\* The identities of the two arrays that the literal
\* { consumption: [], pv_generation: [] } allocates.
ScenarioLiteral ==
  [consumption |-> "[] of scenario.consumption",
   pv_generation |-> "[] of scenario.pv_generation"]

\* arr.unshift(v)
Unshift(arr, v) == <<v>> \o arr

\* Variant: the element is put in front of the others.
PushAtFront(arr, v) == Unshift(arr, v)

\* arr.push(v)
Push(arr, v) == Append(arr, v)

EmptyScenario == [consumption |-> <<>>, pv_generation |-> <<>>]

\* No Kpis object exists yet.
NoKpis ==
  [total_consumption_kwh |-> Undefined,
   pv_coverage_pct |-> Undefined,
   co2_savings_ton |-> Undefined]

NegativeCapacityError == "PV capacity cannot be negative"

(***************************************************************************)
(* The steps of calculateScenario                                          *)
(***************************************************************************)
\* Variant: the capacity is never validated.
CapacityNeverRejected(capacity) == FALSE

\* if (pvKw < 0)
IsNegativeCapacity(capacity) == Lt(capacity, Zero)

\* Variant: the added capacity is not spread over the 24 hours of the day.
AdditionalPvPerHourUnspread(capacity, hours) == Mul(capacity, hours)

\* Variant: the capacity divides instead of multiplying.
AdditionalPvPerHourPerKw(capacity, hours) ==
  Div(hours, Mul(Num(24, 1), capacity))

\* (pvKw * opts.hours_per_day) / 24
AdditionalPvPerHour(capacity, hours) == Div(Mul(capacity, hours), Num(24, 1))

\* Variant: the scaled branch forgets the baseline generation it adds to.
NewPvGenerationDroppingBase(basePvGeneration, capacity, perHour, pvSeries) ==
  IF Gt(capacity, Zero)
  THEN IF Gt(basePvGeneration, Zero)
       THEN LET maxBasePv == MathMaxOf(pvSeries)
            IN IF Gt(maxBasePv, Zero)
               THEN Mul(perHour, Div(basePvGeneration, maxBasePv))
               ELSE basePvGeneration
       ELSE Mul(perHour, Num(1, 10))
  ELSE basePvGeneration

\* Variant: an interval without baseline generation gets the whole hourly
\* addition, not a tenth of it.
NewPvGenerationFullResidual(basePvGeneration, capacity, perHour, pvSeries) ==
  IF Gt(capacity, Zero)
  THEN IF Gt(basePvGeneration, Zero)
       THEN LET maxBasePv == MathMaxOf(pvSeries)
            IN IF Gt(maxBasePv, Zero)
               THEN Add(basePvGeneration,
                        Mul(perHour, Div(basePvGeneration, maxBasePv)))
               ELSE basePvGeneration
       ELSE perHour
  ELSE basePvGeneration

\* The new PV generation of one interval.
NewPvGeneration(basePvGeneration, capacity, perHour, pvSeries) ==
  IF Gt(capacity, Zero)
  THEN IF Gt(basePvGeneration, Zero)
       THEN LET maxBasePv == MathMaxOf(pvSeries)
            IN IF Gt(maxBasePv, Zero)
               THEN LET scaleFactor == Div(basePvGeneration, maxBasePv)
                    IN Add(basePvGeneration, Mul(perHour, scaleFactor))
               ELSE basePvGeneration
       ELSE Mul(perHour, Num(1, 10))
  ELSE basePvGeneration

\* Variant: the function's header comment, where the "additional" PV is the
\* whole new generation, baseline included.
AdditionalPvOfDocstring(newPvGeneration, basePvGeneration) == newPvGeneration

\* const additionalPv = newPvGeneration - basePvGeneration
AdditionalPv(newPvGeneration, basePvGeneration) ==
  Sub(newPvGeneration, basePvGeneration)

\* Variant: the reduction is capped at half the baseline consumption.
ConsumptionReductionCappedAtHalf(baseConsumption, additionalPv, share) ==
  MathMin(Mul(additionalPv, share), Mul(baseConsumption, Num(5, 10)))

\* Variant: all of the added generation is taken as self-consumed.
ConsumptionReductionIgnoringShare(baseConsumption, additionalPv, share) ==
  MathMin(additionalPv, Mul(baseConsumption, Num(8, 10)))

\* Math.min(additionalPv * share, baseConsumption * 0.8)
ConsumptionReduction(baseConsumption, additionalPv, share) ==
  MathMin(Mul(additionalPv, share), Mul(baseConsumption, Num(8, 10)))

\* Variant: the reduction is added instead of subtracted.
NewConsumptionSignSlip(baseConsumption, additionalPv, share) ==
  MathMax(Add(baseConsumption,
              ConsumptionReduction(baseConsumption, additionalPv, share)),
          Mul(baseConsumption, Num(2, 10)))

\* Variant: the function's header comment, which caps the reduction at the
\* whole baseline consumption and has no floor.
NewConsumptionOfDocstring(baseConsumption, additionalPv, share) ==
  Sub(baseConsumption, MathMin(Mul(additionalPv, share), baseConsumption))

\* Variant: neither the 80% cap nor the 20% floor.
NewConsumptionUncapped(baseConsumption, additionalPv, share) ==
  Sub(baseConsumption, Mul(additionalPv, share))

\* Variant: the floor is half the baseline consumption.
NewConsumptionFloorAtHalf(baseConsumption, additionalPv, share) ==
  MathMax(Sub(baseConsumption,
              ConsumptionReduction(baseConsumption, additionalPv, share)),
          Mul(baseConsumption, Num(5, 10)))

NewConsumption(baseConsumption, additionalPv, share) ==
  MathMax(Sub(baseConsumption,
              ConsumptionReduction(baseConsumption, additionalPv, share)),
          Mul(baseConsumption, Num(2, 10)))

\* Math.round(x * 10) / 10
RoundTo1(x) == Div(MathRound(Mul(x, Num(10, 1))), Num(10, 1))

\* Variant: two decimals, as the other display values suggest.
RoundTo2(x) == Div(MathRound(Mul(x, Num(100, 1))), Num(100, 1))

\* Math.round(x * 1000) / 1000
RoundTo3(x) == Div(MathRound(Mul(x, Num(1000, 1))), Num(1000, 1))

\* Variant: the division is not guarded against a zero total.
PvCoveragePctUnguarded(totalPvGeneration, totalBaselineConsumption) ==
  Mul(Div(totalPvGeneration, totalBaselineConsumption), Num(100, 1))

\* Variant: the guard lets a total of exactly 0 through (>= for >).
PvCoveragePctGuardAtZero(totalPvGeneration, totalBaselineConsumption) ==
  IF Ge(totalBaselineConsumption, Zero)
  THEN Mul(Div(totalPvGeneration, totalBaselineConsumption), Num(100, 1))
  ELSE Zero

PvCoveragePct(totalPvGeneration, totalBaselineConsumption) ==
  IF Gt(totalBaselineConsumption, Zero)
  THEN Mul(Div(totalPvGeneration, totalBaselineConsumption), Num(100, 1))
  ELSE Zero

\* Variant: kilograms, the unit of the emission factor, not tons.
Co2SavingsKg(consumptionSavings, factor) == Mul(consumptionSavings, factor)

Co2SavingsTon(consumptionSavings, factor) ==
  Div(Mul(consumptionSavings, factor), Num(1000, 1))

CalculateKpis(base, scen, o) ==
  LET totalBaselineConsumption == Sum(base.consumption)
      totalScenarioConsumption == Sum(scen.consumption)
      totalPvGeneration == Sum(scen.pv_generation)
      consumptionSavings ==
        Sub(totalBaselineConsumption, totalScenarioConsumption)
  IN [total_consumption_kwh |-> RoundTo1(totalScenarioConsumption),
      pv_coverage_pct |->
        RoundTo1(PvCoveragePct(totalPvGeneration, totalBaselineConsumption)),
      co2_savings_ton |->
        RoundTo3(Co2SavingsTon(consumptionSavings, o.co2_emission_factor))]

(***************************************************************************)
(* Inputs                                                                  *)
(***************************************************************************)
RECURSIVE SeqsUpTo(_, _)
SeqsUpTo(S, len) ==
  IF len = 0 THEN {<<>>}
  ELSE LET shorter == SeqsUpTo(S, len - 1)
       IN shorter \cup {Append(q, v) : q \in shorter, v \in S}

ConsumptionValues == {Zero, Num(2, 1), Num(120, 1)}

PvValues == {Zero, Num(5, 1), Num(25, 1)}

RECURSIVE Nums(_)
Nums(ints) ==
  IF ints = <<>> THEN <<>> ELSE <<Num(Head(ints), 1)>> \o Nums(Tail(ints))

\* The baseline of the engine's test-suite.
mockBaseline ==
  [consumption |-> Nums(<<120, 118, 115, 113, 112, 140, 160, 155>>),
   pv_generation |-> Nums(<<0, 0, 0, 5, 15, 25, 20, 10>>)]

\* A series with a negative reading, which the data source should never send.
negativeBaseline ==
  [consumption |-> Nums(<<-10, 120>>), pv_generation |-> Nums(<<5, -5>>)]

Baselines ==
  {[consumption |-> c, pv_generation |-> g] :
     c \in SeqsUpTo(ConsumptionValues, MaxLen), g \in SeqsUpTo(PvValues, MaxLen)}
  \cup {mockBaseline, negativeBaseline}

PvKwValues == {Num(-5, 1), Zero, Num(10, 1), Num(1000, 1)}

customOptions ==
  [hours_per_day |-> Num(6, 1),
   self_consumption_share |-> Num(8, 10),
   co2_emission_factor |-> Num(5, 10)]

OptionValues ==
  {NoOptions,
   customOptions,
   [NoOptions EXCEPT !.self_consumption_share = Num(1, 1)],
   [NoOptions EXCEPT !.self_consumption_share = Zero],
   [NoOptions EXCEPT !.self_consumption_share = Num(-1, 2)],
   [NoOptions EXCEPT !.hours_per_day = Num(-1, 1)],
   [NoOptions EXCEPT !.co2_emission_factor = Num(5, 10)],
   [customOptions EXCEPT !.hours_per_day = Absent],
   [customOptions EXCEPT !.self_consumption_share = Absent],
   [customOptions EXCEPT !.co2_emission_factor = Absent]}

(***************************************************************************)
(* Logger: the class as functions of the logger object.  A call runs to    *)
(* completion, the calls its listeners make included, so a whole call is    *)
(* one function from the object before it to the object after it.          *)
(***************************************************************************)
LogLevels == {"error", "warn", "info", "debug"}

\* getLogs() without a level.
NoLevel == "undefined"

\* The n-th entry the session creates; n stands for its id and timestamp.
LogEntry(n, level) == [id |-> n, level |-> level]

\* JSON.stringify of one entry, and of the array; JSON.parse of one entry.
Stringify(entry) == <<"id", entry.id, "level", entry.level>>

StringifyLogs(entries) == [k \in 1..Len(entries) |-> Stringify(entries[k])]

Parse(json) == [id |-> json[2], level |-> json[4]]

\* localStorage.getItem of a key never set.
Null == <<<<"null">>>>

LoadPersistedLogs(stored) ==
  IF stored = Null THEN <<>>
  ELSE [k \in 1..Len(stored) |-> Parse(stored[k])]

DefaultLoggerConfig ==
  [maxEntries |-> 100, enableConsoleOutput |-> TRUE, enableErrorCapture |-> TRUE]

\* configure: { ...this.config, ...config }
MergeConfig(current, config) ==
  [k \in DOMAIN current |-> IF k \in DOMAIN config THEN config[k] ELSE current[k]]

\* arr.slice(0, end)
Slice(arr, end) ==
  LET n == Len(arr)
      last == IF end < 0 THEN (IF n + end < 0 THEN 0 ELSE n + end)
              ELSE (IF end > n THEN n ELSE end)
  IN SubSeq(arr, 1, last)

Trim(entries, maxEntries) ==
  IF Len(entries) > maxEntries THEN Slice(entries, maxEntries) ELSE entries

\* Variant: the new entry goes to the end of the list.
InsertAtEnd(entries, entry) == Push(entries, entry)

Insert(entries, entry) == Unshift(entries, entry)

\* arr.filter(l => l !== listener)
Without(arr, listener) == SelectSeq(arr, LAMBDA l : l # listener)

\* The listener functions of the model: one that only takes the list, one
\* that throws, one that logs from inside the notification, one that calls
\* the unsubscribe function of the first.
Listeners == {"recorder", "thrower", "relogger", "canceller"}

\* The unsubscribe function subscribe(listener) returned is called.
CallUnsubscribe(L, listener) ==
  [L EXCEPT !.listeners = Without(@, listener),
            !.unsubscribed = @ \cup {listener}]

\* persistLogs: setItem, and console.warn when setItem throws.
PersistLogs(L, E) ==
  IF E.storageThrows THEN [L EXCEPT !.setItems = @ + 1]
  ELSE [L EXCEPT !.setItems = @ + 1, !.storage = StringifyLogs(L.logs)]

PersistLogsThrows(E) == E.storageThrows /\ E.consoleThrows

\* Variant: the flag stays set when addLog returns.
GuardKept(L) == L

\* finally { this.isLogging = false }
ReleaseGuard(L) == [L EXCEPT !.isLogging = FALSE]

RECURSIVE AddLog(_, _, _)
RECURSIVE NotifyFrom(_, _, _, _)

\* forEach over the array that was this.listeners when the round began, from
\* its k-th element on; the round ends at the first listener that throws.
NotifyFrom(L, E, arr, k) ==
  IF k > Len(arr) THEN [logger |-> L, threw |-> FALSE]
  ELSE LET listener == arr[k]
           called ==
             [L EXCEPT !.calls =
                Append(@, [listener |-> listener, logs |-> L.logs,
                           unsubscribed |-> listener \in L.unsubscribed])]
       IN CASE listener = "thrower" -> [logger |-> called, threw |-> TRUE]
            [] listener = "relogger" ->
                 NotifyFrom(AddLog(called, E, "info"), E, arr, k + 1)
            [] listener = "canceller" ->
                 NotifyFrom(CallUnsubscribe(called, "recorder"), E, arr, k + 1)
            [] OTHER -> NotifyFrom(called, E, arr, k + 1)

NotifyListeners(L, E) == NotifyFrom(L, E, L.listeners, 1)

AddLog(L, E, level) ==
  IF L.isLogging THEN [L EXCEPT !.rejected = @ + 1]
  ELSE LET logEntry == LogEntry(L.created + 1, level)
           added ==
             [L EXCEPT !.isLogging = TRUE,
                       !.created = @ + 1,
                       !.added = @ + 1,
                       !.logs = Trim(Insert(@, logEntry), L.config.maxEntries)]
           persisted == PersistLogs(added, E)
           notified == NotifyListeners(persisted, E).logger
       IN ReleaseGuard(notified)

\* clearLogs: nothing catches what persistLogs or a listener throws.
ClearLogsOf(L, E) ==
  LET cleared == [L EXCEPT !.logs = <<>>]
      persisted == PersistLogs(cleared, E)
  IN IF PersistLogsThrows(E) THEN [logger |-> persisted, threw |-> TRUE]
     ELSE NotifyListeners(persisted, E)

Environments == [storageThrows : BOOLEAN, consoleThrows : BOOLEAN]

ConfigUpdates ==
  {[maxEntries |-> 1], [maxEntries |-> 2], [maxEntries |-> 100],
   [enableConsoleOutput |-> FALSE]}

(***************************************************************************)
(* State                                                                   *)
(***************************************************************************)
VARIABLES
  logs,                \* Logger.logs
  listeners,           \* Logger.listeners
  config,              \* Logger.config
  isLogging,           \* Logger.isLogging
  storage,             \* localStorage['energy-dashboard-logs']
  created,             \* how many entries have been created so far
  lastCall             \* the last call that notified, and whom it invoked

loggerVars ==
  <<logs, listeners, config, isLogging, storage, created, lastCall>>

NoCall ==
  [op |-> "none", listeners |-> <<>>, calls |-> <<>>, threw |-> FALSE,
   added |-> 0, rejected |-> 0, setItems |-> 0]

LoggerInit ==
  /\ logs = LoadPersistedLogs(Null)
  /\ listeners = <<>>
  /\ config = DefaultLoggerConfig
  /\ isLogging = FALSE
  /\ storage = Null
  /\ created = 0
  /\ lastCall = NoCall

VARIABLES
  apiPc,               \* position of the call of getEnergyData
  apiUrl,              \* const url
  apiResponse,         \* const response, once fetch has resolved
  apiText,             \* const responseText, once response.text() has settled
  apiPromise           \* the promise getEnergyData returned

apiVars == <<apiPc, apiUrl, apiResponse, apiText, apiPromise>>

NoResponse == [status |-> 0, body |-> ""]

ApiInit ==
  /\ apiPc = "idle"
  /\ apiUrl = [path |-> "", start |-> "", end |-> ""]
  /\ apiResponse = NoResponse
  /\ apiText = "unread"
  /\ apiPromise = [state |-> "none", value |-> <<>>]

VARIABLES
  variant,             \* which DashboardPage is mounted
  data,                \* data: null, or the response
  loading,             \* const [loading, setLoading]
  error,               \* error: null, or the Error
  currentPvKw,         \* const [currentPvKw, setCurrentPvKw]
  currentScenario,     \* const [currentScenario, setCurrentScenario]
  currentKpis,         \* const [currentKpis, setCurrentKpis]
  isApplying,          \* const [isApplying, setIsApplying]
  query,               \* the state of useQuery
  mutation,            \* the state of pvConfigMutation
  timers,              \* the setTimeout promises not yet resolved
  fetches,             \* the calls of fetchData awaiting getEnergyData
  effects,             \* the effects the last commit scheduled
  results,             \* what calculateScenario returns, by its arguments
  retried              \* the last handler the page ran was handleRetry

dashboardVars ==
  <<variant, data, loading, error, currentPvKw, currentScenario, currentKpis,
    isApplying, query, mutation, timers, fetches, effects, results, retried>>

\* null, and a value that is not null.
Nothing == <<>>

Just(x) == <<x>>

DashboardVariants == {"useEffect", "useMutation", "useQuery"}

NoQuery == [status |-> "none", fetching |-> FALSE]

IdleMutation == [status |-> "idle", data |-> Nothing]

\* No page is mounted.
DashboardUnmounted ==
  /\ variant = "none"
  /\ data = Nothing
  /\ loading = FALSE
  /\ error = Nothing
  /\ currentPvKw = Zero
  /\ currentScenario = Nothing
  /\ currentKpis = Nothing
  /\ isApplying = FALSE
  /\ query = NoQuery
  /\ mutation = IdleMutation
  /\ timers = {}
  /\ fetches = {}
  /\ effects = {}
  /\ results = <<>>
  /\ retried = FALSE

VARIABLES
  pc,                  \* position of the call: idle, start, loop, done, error
  baseline,            \* the caller's Baseline object
  pvKw,                \* the capacity argument
  options,             \* the caller's options object
  opts,                \* the merged options
  additionalPvPerHour, \* const additionalPvPerHour
  i,                   \* the loop index
  scenario,            \* the Scenario under construction, then returned
  kpis,                \* the Kpis returned
  err,                 \* the message of the Error thrown, "" when none
  scenarioArrays,      \* the identities of the scenario's two arrays
  earlierCalls         \* the arguments of the session's finished calls

engineVars ==
  <<pc, baseline, pvKw, options, opts, additionalPvPerHour, i, scenario, kpis,
    err, scenarioArrays, earlierCalls, defaults>>

vars == <<engineVars, loggerVars, apiVars, dashboardVars>>

EngineInit ==
  /\ pc = "idle"
  /\ baseline = EmptyScenario
  /\ pvKw = Zero
  /\ options = NoOptions
  /\ opts = DEFAULT_CALCULATION_OPTIONS
  /\ additionalPvPerHour = Undefined
  /\ i = 0
  /\ scenario = EmptyScenario
  /\ kpis = NoKpis
  /\ err = ""
  /\ scenarioArrays = NoArrays
  /\ earlierCalls = <<>>
  /\ defaults = DEFAULT_CALCULATION_OPTIONS

Init ==
  /\ EngineInit
  /\ LoggerInit
  /\ ApiInit
  /\ DashboardUnmounted

\* The call calculateScenario(b, p, o) is entered.
Enter(b, p, o) ==
  /\ baseline' = b
  /\ pvKw' = p
  /\ options' = o
  /\ pc' = "start"
  /\ opts' = DEFAULT_CALCULATION_OPTIONS
  /\ additionalPvPerHour' = Undefined
  /\ i' = 0
  /\ scenario' = EmptyScenario
  /\ kpis' = NoKpis
  /\ err' = ""
  /\ scenarioArrays' = NoArrays
  /\ UNCHANGED <<earlierCalls, defaults, loggerVars,
                 apiVars, dashboardVars>>

\* A caller invokes calculateScenario(b, p, o).
Invoke ==
  /\ pc = "idle"
  /\ \E b \in Baselines, p \in PvKwValues, o \in OptionValues : Enter(b, p, o)

\* The options are merged, then a negative capacity is rejected.
ThrowNegative ==
  /\ pc = "start"
  /\ IsNegativeCapacity(pvKw)
  /\ opts' = MergeOptions(options)
  /\ err' = NegativeCapacityError
  /\ pc' = "error"
  /\ defaults' = DefaultsAfterMerge(options)
  /\ UNCHANGED <<baseline, pvKw, options, additionalPvPerHour, i, scenario,
                 kpis, scenarioArrays, earlierCalls, loggerVars, apiVars,
                 dashboardVars>>

\* The options are merged, the capacity is accepted, the loop is set up.
Begin ==
  /\ pc = "start"
  /\ ~IsNegativeCapacity(pvKw)
  /\ opts' = MergeOptions(options)
  /\ additionalPvPerHour' =
       AdditionalPvPerHour(pvKw, MergeOptions(options).hours_per_day)
  /\ defaults' = DefaultsAfterMerge(options)
  /\ scenario' = EmptyScenario
  /\ scenarioArrays' = ScenarioLiteral
  /\ i' = 0
  /\ pc' = "loop"
  /\ UNCHANGED <<baseline, pvKw, options, kpis, err, earlierCalls, loggerVars, apiVars,
                 dashboardVars>>

\* One iteration of the loop over baseline.consumption.
LoopStep ==
  /\ pc = "loop"
  /\ i < Len(baseline.consumption)
  /\ LET baseConsumption == At(baseline.consumption, i)
         basePvGeneration == At(baseline.pv_generation, i)
         newPvGeneration ==
           NewPvGeneration(basePvGeneration, pvKw, additionalPvPerHour,
                           baseline.pv_generation)
         additionalPv == AdditionalPv(newPvGeneration, basePvGeneration)
         newConsumption ==
           NewConsumption(baseConsumption, additionalPv,
                          opts.self_consumption_share)
     IN scenario' =
          [consumption |-> Push(scenario.consumption, newConsumption),
           pv_generation |-> Push(scenario.pv_generation, newPvGeneration)]
  /\ i' = i + 1
  /\ UNCHANGED <<pc, baseline, pvKw, options, opts, additionalPvPerHour, kpis,
                 err, scenarioArrays, earlierCalls, defaults, loggerVars,
                 apiVars, dashboardVars>>

\* The loop ends; the KPIs are aggregated and { scenario, kpis } is returned.
Aggregate ==
  /\ pc = "loop"
  /\ ~(i < Len(baseline.consumption))
  /\ kpis' = CalculateKpis(baseline, scenario, opts)
  /\ pc' = "done"
  /\ UNCHANGED <<baseline, pvKw, options, opts, additionalPvPerHour, i,
                 scenario, err, scenarioArrays, earlierCalls, defaults,
                 loggerVars, apiVars, dashboardVars>>

\* The call's frame and the caller's references to the arguments go away.
Leave ==
  /\ pc \in {"done", "error"}
  /\ pc' = "idle"
  /\ baseline' = EmptyScenario
  /\ pvKw' = Zero
  /\ options' = NoOptions
  /\ opts' = DEFAULT_CALCULATION_OPTIONS
  /\ additionalPvPerHour' = Undefined
  /\ i' = 0
  /\ scenario' = EmptyScenario
  /\ kpis' = NoKpis
  /\ err' = ""
  /\ scenarioArrays' = NoArrays
  /\ UNCHANGED <<defaults, loggerVars, apiVars, dashboardVars>>

\* The caller has taken the result or the error.
Return == Leave /\ UNCHANGED earlierCalls

Next == Invoke \/ ThrowNegative \/ Begin \/ LoopStep \/ Aggregate \/ Return

Spec == Init /\ [][Next]_vars

(***************************************************************************)
(* A session: several callers, each calling when the one before it has its *)
(* result or its error (the function is synchronous and JavaScript runs it  *)
(* to completion, so calls follow one another and never overlap).          *)
(***************************************************************************)
sessionBaseline ==
  [consumption |-> Nums(<<120, 2>>), pv_generation |-> Nums(<<0, 25>>)]

SessionBaselines == {mockBaseline, sessionBaseline}

SessionPvKwValues == {Num(-5, 1), Num(10, 1)}

SessionOptionValues == {NoOptions, customOptions}

InvokeInSession ==
  /\ pc = "idle"
  /\ Len(earlierCalls) < MaxCalls
  /\ \E b \in SessionBaselines, p \in SessionPvKwValues,
        o \in SessionOptionValues : Enter(b, p, o)

ReturnInSession ==
  /\ Leave
  /\ earlierCalls' = Append(earlierCalls, [pvKw |-> pvKw, options |-> options])

SessionNext ==
  \/ InvokeInSession
  \/ ThrowNegative
  \/ Begin
  \/ LoopStep
  \/ Aggregate
  \/ ReturnInSession

SessionSpec == Init /\ [][SessionNext]_vars

(***************************************************************************)
(* Logger: the calls on the logger object                                  *)
(***************************************************************************)
\* The logger object as one record, with what the call in progress has done
\* so far: the listeners it invoked and those it unsubscribed, the entries
\* it added, the log calls it turned away, its calls of setItem.
TheLogger ==
  [logs |-> logs, listeners |-> listeners, config |-> config,
   isLogging |-> isLogging, storage |-> storage, created |-> created,
   calls |-> <<>>, unsubscribed |-> {}, added |-> 0, rejected |-> 0,
   setItems |-> 0]

\* The logger object is as L says when the call returns or throws.
Becomes(L) ==
  /\ logs' = L.logs
  /\ listeners' = L.listeners
  /\ config' = L.config
  /\ isLogging' = L.isLogging
  /\ storage' = L.storage
  /\ created' = L.created
  /\ UNCHANGED <<engineVars, apiVars, dashboardVars>>

\* The call op was made with the listener list as it is now and has ended.
Notified(L, op, threw) ==
  lastCall' = [op |-> op, listeners |-> listeners, calls |-> L.calls,
               threw |-> threw, added |-> L.added, rejected |-> L.rejected,
               setItems |-> L.setItems]

\* new Logger(): the page is loaded again over the same localStorage.
Construct ==
  /\ Becomes([TheLogger EXCEPT !.logs = LoadPersistedLogs(storage),
                               !.listeners = <<>>,
                               !.config = DefaultLoggerConfig,
                               !.isLogging = FALSE])
  /\ lastCall' = NoCall

Configure ==
  \E c \in ConfigUpdates :
    /\ Becomes([TheLogger EXCEPT !.config = MergeConfig(@, c)])
    /\ lastCall' = NoCall

\* One of error, warn, info, debug, called by the application.
LogCall(level) ==
  /\ created < MaxLogCalls
  /\ \E E \in Environments :
       LET result == AddLog(TheLogger, E, level)
       IN Becomes(result) /\ Notified(result, level, FALSE)

Error == LogCall("error")

Warn == LogCall("warn")

Info == LogCall("info")

Debug == LogCall("debug")

Subscribe ==
  /\ Len(listeners) < MaxListeners
  /\ \E listener \in Listeners :
       Becomes([TheLogger EXCEPT !.listeners = Push(@, listener)])
  /\ lastCall' = NoCall

\* The application calls the unsubscribe function of a subscribed listener.
Unsubscribe ==
  /\ \E k \in 1..Len(listeners) :
       Becomes(CallUnsubscribe(TheLogger, listeners[k]))
  /\ lastCall' = NoCall

ClearLogs ==
  \E E \in Environments :
    LET result == ClearLogsOf(TheLogger, E)
    IN /\ result.logger.created <= MaxLogCalls
       /\ Becomes(result.logger)
       /\ Notified(result.logger, "clearLogs", result.threw)

\* getLogs(level?), getErrors(), exportLogs()
GetLogs(level) ==
  IF level # NoLevel THEN SelectSeq(logs, LAMBDA log : log.level = level)
  ELSE logs

GetErrors == GetLogs("error")

ExportLogs == StringifyLogs(logs)

LoggerNext ==
  \/ Construct
  \/ Configure
  \/ Error
  \/ Warn
  \/ Info
  \/ Debug
  \/ Subscribe
  \/ Unsubscribe
  \/ ClearLogs

LoggerSpec == Init /\ [][LoggerNext]_vars

(***************************************************************************)
(* calculateScenario as a function of its arguments                        *)
(***************************************************************************)
\* The loop from the 0-based index k on, given the scenario built so far.
RECURSIVE ScenarioLoop(_, _, _, _, _)
ScenarioLoop(b, p, o, k, scen) ==
  IF ~(k < Len(b.consumption)) THEN scen
  ELSE LET perHour == AdditionalPvPerHour(p, o.hours_per_day)
           baseConsumption == At(b.consumption, k)
           basePvGeneration == At(b.pv_generation, k)
           newPvGeneration ==
             NewPvGeneration(basePvGeneration, p, perHour, b.pv_generation)
           additionalPv == AdditionalPv(newPvGeneration, basePvGeneration)
           newConsumption ==
             NewConsumption(baseConsumption, additionalPv,
                            o.self_consumption_share)
       IN ScenarioLoop(b, p, o, k + 1,
            [consumption |-> Push(scen.consumption, newConsumption),
             pv_generation |-> Push(scen.pv_generation, newPvGeneration)])

\* What a call with the baseline b, the capacity p and the merged options o
\* gives its caller.
CalculateScenario(b, p, o) ==
  IF IsNegativeCapacity(p)
  THEN [err |-> NegativeCapacityError, scenario |-> EmptyScenario,
        kpis |-> NoKpis]
  ELSE LET scen == ScenarioLoop(b, p, o, 0, EmptyScenario)
       IN [err |-> "", scenario |-> scen, kpis |-> CalculateKpis(b, scen, o)]

\* What the call in progress has given its caller.
Outcome == [err |-> err, scenario |-> scenario, kpis |-> kpis]

(***************************************************************************)
(* The copy of calculateScenario inlined in the dashboard component        *)
(***************************************************************************)
hoursPerDay == Num(4, 1)

\* Variant: the share of the test-suite's custom options.
selfConsumptionShareOfCustomOptions == Num(8, 10)

selfConsumptionShare == Num(6, 10)

co2EmissionFactor == Num(4, 10)

\* The copy's loop from the 0-based index k on.
RECURSIVE InlineLoop(_, _, _, _)
InlineLoop(b, p, k, scen) ==
  IF ~(k < Len(b.consumption)) THEN scen
  ELSE LET perHour == Div(Mul(p, hoursPerDay), Num(24, 1))
           baseConsumption == At(b.consumption, k)
           basePvGeneration == At(b.pv_generation, k)
           maxBasePv == MathMaxOf(b.pv_generation)
           newPvGeneration ==
             IF Gt(p, Zero)
             THEN IF Gt(basePvGeneration, Zero)
                  THEN IF Gt(maxBasePv, Zero)
                       THEN Add(basePvGeneration,
                                Mul(perHour, Div(basePvGeneration, maxBasePv)))
                       ELSE basePvGeneration
                  ELSE Mul(perHour, Num(1, 10))
             ELSE basePvGeneration
           additionalPv == Sub(newPvGeneration, basePvGeneration)
           consumptionReduction ==
             MathMin(Mul(additionalPv, selfConsumptionShare),
                     Mul(baseConsumption, Num(8, 10)))
           newConsumption ==
             MathMax(Sub(baseConsumption, consumptionReduction),
                     Mul(baseConsumption, Num(2, 10)))
       IN InlineLoop(b, p, k + 1,
                     [consumption |-> Append(scen.consumption, newConsumption),
                      pv_generation |->
                        Append(scen.pv_generation, newPvGeneration)])

InlineKpis(b, scen) ==
  LET totalBaselineConsumption == Sum(b.consumption)
      totalScenarioConsumption == Sum(scen.consumption)
      totalPvGeneration == Sum(scen.pv_generation)
      consumptionSavings ==
        Sub(totalBaselineConsumption, totalScenarioConsumption)
      pvCoveragePct ==
        IF Gt(totalBaselineConsumption, Zero)
        THEN Mul(Div(totalPvGeneration, totalBaselineConsumption), Num(100, 1))
        ELSE Zero
      co2SavingsTon ==
        Div(Mul(consumptionSavings, co2EmissionFactor), Num(1000, 1))
  IN [total_consumption_kwh |->
        Div(MathRound(Mul(totalScenarioConsumption, Num(10, 1))), Num(10, 1)),
      pv_coverage_pct |->
        Div(MathRound(Mul(pvCoveragePct, Num(10, 1))), Num(10, 1)),
      co2_savings_ton |->
        Div(MathRound(Mul(co2SavingsTon, Num(1000, 1))), Num(1000, 1))]

InlineCalculateScenario(b, p) ==
  IF Lt(p, Zero)
  THEN [err |-> "PV capacity cannot be negative",
        scenario |-> EmptyScenario, kpis |-> NoKpis]
  ELSE LET scen == InlineLoop(b, p, 0, EmptyScenario)
       IN [err |-> "", scenario |-> scen, kpis |-> InlineKpis(b, scen)]

(***************************************************************************)
(* EnergyApiService.getEnergyData (api/energyApi.ts): one step for each    *)
(* await of the async function.                                            *)
(***************************************************************************)
ApiStarts == {"2025-09-01", "2025-09-02", "2025-09-08"}

ApiEnds == {"2025-09-08", "2025-09-09"}

\* new URL('/api/energy', origin) with the two search parameters set.
Url(start, end) == [path |-> "/api/energy", start |-> start, end |-> end]

\* The bodies a response can carry: the JSON the mock server sends, other
\* JSON texts, the page the dev server sends when no handler answers, a
\* truncated text and the empty text.
MockServerBody == "{\"baseline\":{\"consumption\":[120,2],\"pv_generation\":[0,25]}}"

ApiBodies ==
  {MockServerBody, "{}", "null", "<!doctype html>", "{\"baseline\":", ""}

ApiStatuses == {200, 204, 404, 500}

ApiResponses == [status : ApiStatuses, body : ApiBodies]

\* response.ok
Ok(response) == response.status >= 200 /\ response.status <= 299

\* JSON.parse(text): whether it throws, and the value it gives when not.
JsonParseThrows(text) == text \notin {MockServerBody, "{}", "null"}

JsonParse(text) ==
  CASE text = MockServerBody ->
         [kind |-> "object",
          fields |-> [baseline |->
                        [consumption |-> Nums(<<120, 2>>),
                         pv_generation |-> Nums(<<0, 25>>)]]]
    [] text = "{}" -> [kind |-> "object", fields |-> <<>>]
    [] text = "null" -> [kind |-> "null", fields |-> <<>>]

GetFallbackMockData ==
  LET Tenths(ints) == [k \in 1..Len(ints) |-> Num(ints[k], 10)]
      Hours ==
        <<"00", "01", "02", "03", "04", "05", "06", "07", "08", "09", "10",
          "11", "12", "13", "14", "15", "16", "17", "18", "19", "20", "21",
          "22", "23">>
  IN
  [kind |-> "object",
   fields |->
     [timestamps |-> [h \in 1..24 |-> <<"2025-09-08T", Hours[h], ":00:00Z">>],
      baseline |->
        [consumption |->
           Tenths(<<1205, 1183, 1152, 1134, 1120, 1110, 1128, 1164, 1250,
                    1405, 1552, 1608, 1654, 1621, 1583, 1527, 1482, 1455,
                    1428, 1384, 1351, 1308, 1272, 1235>>),
         pv_generation |->
           Tenths(<<0, 0, 0, 0, 0, 0, 0, 0, 52, 158, 254, 321, 358, 332, 287,
                    224, 146, 81, 23, 0, 0, 0, 0, 0>>)],
      scenario |->
        [consumption |->
           Tenths(<<1205, 1183, 1152, 1134, 1120, 1110, 1128, 1164, 1250,
                    1405, 1552, 1608, 1654, 1621, 1583, 1527, 1482, 1455,
                    1428, 1384, 1351, 1308, 1272, 1235>>),
         pv_generation |->
           Tenths(<<0, 0, 0, 0, 0, 0, 0, 0, 104, 316, 508, 642, 716, 664, 574,
                    448, 292, 162, 46, 0, 0, 0, 0, 0>>)],
      kpis |->
        [total_consumption_kwh |-> Num(32652, 10),
         pv_coverage_pct |-> Num(314, 10),
         co2_savings_ton |-> Num(42, 100)]]]

Fulfilled(value) == [state |-> "fulfilled", value |-> value]

Rejected(reason) == [state |-> "rejected", value |-> reason]

\* Variant: the catch block throws what it caught.
Rethrow(reason) == Rejected(reason)

\* catch (error) { return this.getFallbackMockData() }
Catch(reason) == Fulfilled(GetFallbackMockData)

\* catch (parseError) { return this.getFallbackMockData() }
CatchParseError(reason) == Fulfilled(GetFallbackMockData)

\* getEnergyData(start, end) is called and reaches await fetch(...).
GetEnergyData ==
  /\ apiPc \in {"idle", "settled"}
  /\ \E start \in ApiStarts, end \in ApiEnds : apiUrl' = Url(start, end)
  /\ apiPc' = "fetch"
  /\ apiResponse' = NoResponse
  /\ apiText' = "unread"
  /\ apiPromise' = [state |-> "pending", value |-> <<>>]
  /\ UNCHANGED <<engineVars, loggerVars, dashboardVars>>

\* fetch rejects: the network is down.
FetchThrows ==
  /\ apiPc = "fetch"
  /\ apiPc' = "settled"
  /\ apiPromise' = Catch(<<"TypeError", "Failed to fetch">>)
  /\ UNCHANGED <<apiUrl, apiResponse, apiText>>
  /\ UNCHANGED <<engineVars, loggerVars, dashboardVars>>

\* fetch resolves: a response that is not ok is thrown and caught, an ok one
\* reaches await response.text().
FetchResponds ==
  /\ apiPc = "fetch"
  /\ \E response \in ApiResponses :
       /\ apiResponse' = response
       /\ IF ~Ok(response)
          THEN /\ apiPc' = "settled"
               /\ apiPromise' =
                    Catch(<<"Error", "Failed to fetch energy data: ",
                            response.status>>)
          ELSE /\ apiPc' = "text"
               /\ UNCHANGED apiPromise
  /\ UNCHANGED <<apiUrl, apiText>>
  /\ UNCHANGED <<engineVars, loggerVars, dashboardVars>>

\* response.text() resolves and the text is parsed.
TextResolves ==
  /\ apiPc = "text"
  /\ apiText' = apiResponse.body
  /\ apiPc' = "settled"
  /\ apiPromise' = IF JsonParseThrows(apiResponse.body)
                   THEN CatchParseError(<<"SyntaxError", apiResponse.body>>)
                   ELSE Fulfilled(JsonParse(apiResponse.body))
  /\ UNCHANGED <<apiUrl, apiResponse>>
  /\ UNCHANGED <<engineVars, loggerVars, dashboardVars>>

\* response.text() rejects: the connection broke while the body was read.
TextRejects ==
  /\ apiPc = "text"
  /\ apiText' = "rejected"
  /\ apiPc' = "settled"
  /\ apiPromise' = Catch(<<"TypeError", "Failed to fetch">>)
  /\ UNCHANGED <<apiUrl, apiResponse>>
  /\ UNCHANGED <<engineVars, loggerVars, dashboardVars>>

ApiNext ==
  \/ GetEnergyData
  \/ FetchThrows
  \/ FetchResponds
  \/ TextResolves
  \/ TextRejects

ApiSpec == Init /\ [][ApiNext]_vars

(***************************************************************************)
(* DashboardPage, in its three versions: the one that fetches in an effect *)
(* (useEffect), the one with useQuery and useMutation (useMutation) and    *)
(* the one with useQuery and the inlined calculation (useQuery).  A step   *)
(* is one task of the event loop: a handler, the continuation of an await, *)
(* or the effects of a commit.  React 18 batches the state updates of a    *)
(* task into one commit, and runs the effects of a commit before the next  *)
(* task that updates the component.                                        *)
(***************************************************************************)
\* The responses the data source can give.
DashboardResponses == {[baseline |-> mockBaseline], [baseline |-> sessionBaseline]}

\* The capacities the configurator can apply.
ConfiguratorValues == {Zero, Num(10, 1), Num(25, 1)}

\* calculateScenario(baseline, pvKw) as each version of the page calls it:
\* the inlined copy in the useQuery version, the engine's function without
\* an options argument, and so with the default options, in the other two.
DashboardResults ==
  [v \in DashboardVariants, b \in {r.baseline : r \in DashboardResponses},
   p \in ConfiguratorValues |->
     IF v = "useQuery" THEN InlineCalculateScenario(b, p)
     ELSE CalculateScenario(b, p, DEFAULT_CALCULATION_OPTIONS)]

\* The function is pure: a call returns what the table of its values holds.
DashboardCalculate(v, b, p) == results[v, b, p]

\* The effects of the component, all of which run after the first render.
EffectsOf(v) ==
  CASE v = "useEffect" -> {"fetch"}
    [] v = "useMutation" -> {"success", "recalculate"}
    [] v = "useQuery" -> {"recalculate"}

\* The component has rendered for the first time.
DashboardInit(v) ==
  /\ variant = v
  /\ data = Nothing
  /\ loading = (v = "useEffect")
  /\ error = Nothing
  /\ currentPvKw = Num(10, 1)
  /\ currentScenario = Nothing
  /\ currentKpis = Nothing
  /\ isApplying = FALSE
  /\ query = IF v = "useEffect" THEN NoQuery
             ELSE [status |-> "pending", fetching |-> TRUE]
  /\ mutation = IdleMutation
  /\ timers = {}
  /\ fetches = {}
  /\ effects = EffectsOf(v)
  /\ results = DashboardResults
  /\ retried = FALSE

\* Variant: only the scenario of a result is put on the page.
DisplayedScenarioOnly(result) ==
  [scenario |-> Just(result.scenario), kpis |-> Nothing]

\* setCurrentScenario(result.scenario); setCurrentKpis(result.kpis)
Displayed(result) ==
  [scenario |-> Just(result.scenario), kpis |-> Just(result.kpis)]

\* isLoading of useQuery
IsLoading ==
  IF variant = "useEffect" THEN loading
  ELSE query.fetching /\ query.status = "pending"

\* What the component renders.
Page ==
  CASE IsLoading -> "skeleton"
    [] ~IsLoading /\ error # Nothing -> "error"
    [] ~IsLoading /\ error = Nothing
         /\ (data = Nothing \/ currentKpis = Nothing) -> "null"
    [] OTHER -> "dashboard"

\* isLoading of the configurator, which applies nothing while it is set.
ConfiguratorIsLoading ==
  IF variant = "useMutation" THEN mutation.status = "pending" ELSE isApplying

\* The effects whose dependencies the commit of this step changes.
Scheduled ==
  (IF variant = "useEffect" /\ currentPvKw' # currentPvKw
   THEN {"fetch"} ELSE {})
  \cup (IF variant # "useEffect"
           /\ (data' # data \/ currentPvKw' # currentPvKw)
        THEN {"recalculate"} ELSE {})
  \cup (IF variant = "useMutation"
           /\ ((mutation'.status = "success") # (mutation.status = "success")
               \/ mutation'.data # mutation.data)
        THEN {"success"} ELSE {})

\* fetchData() up to its await: the effect of the useEffect version.
FetchEffect ==
  /\ loading' = TRUE
  /\ error' = Nothing
  /\ fetches' = fetches \cup {[currentPvKw |-> currentPvKw]}
  /\ effects' = {}
  /\ UNCHANGED <<data, currentPvKw, currentScenario, currentKpis, query,
                 mutation>>

\* The effect on a mutation's success, then the effect that recalculates,
\* both with the values of the render that scheduled them.
QueryEffects ==
  LET rendered ==
        [scenario |-> currentScenario, kpis |-> currentKpis,
         pvKw |-> currentPvKw]
      succeeded ==
        IF "success" \in effects /\ mutation.status = "success"
           /\ mutation.data # Nothing
        THEN LET shown == Displayed(mutation.data[1].result)
             IN [scenario |-> shown.scenario, kpis |-> shown.kpis,
                 pvKw |-> mutation.data[1].newPvKw]
        ELSE rendered
      recalculated ==
        IF "recalculate" \in effects /\ data # Nothing
        THEN LET shown ==
                   Displayed(DashboardCalculate(variant, data[1].baseline,
                                                currentPvKw))
             IN [succeeded EXCEPT !.scenario = shown.scenario,
                                  !.kpis = shown.kpis]
        ELSE succeeded
  IN /\ currentScenario' = recalculated.scenario
     /\ currentKpis' = recalculated.kpis
     /\ currentPvKw' = recalculated.pvKw
     /\ UNCHANGED <<data, loading, error, query, mutation, fetches>>
     /\ effects' = Scheduled

RunEffects ==
  /\ effects # {}
  /\ IF variant = "useEffect" THEN FetchEffect ELSE QueryEffects
  /\ UNCHANGED <<variant, results, isApplying, timers, retried>>
  /\ UNCHANGED <<engineVars, loggerVars, apiVars>>

\* getEnergyData resolves in fetchData: the rest of the try block, then the
\* finally block.
FetchResolves ==
  /\ variant = "useEffect"
  /\ effects = {}
  /\ \E f \in fetches, response \in DashboardResponses :
       LET result == DashboardCalculate(variant, response.baseline,
                                        f.currentPvKw)
       IN /\ data' = Just(response)
          /\ IF result.err = ""
             THEN /\ currentScenario' = Displayed(result).scenario
                  /\ currentKpis' = Displayed(result).kpis
                  /\ UNCHANGED error
             ELSE /\ error' = Just(result.err)
                  /\ UNCHANGED <<currentScenario, currentKpis>>
          /\ fetches' = fetches \ {f}
  /\ loading' = FALSE
  /\ retried' = FALSE
  /\ UNCHANGED <<variant, results, currentPvKw, isApplying, query, mutation,
                 timers, effects>>
  /\ UNCHANGED <<engineVars, loggerVars, apiVars>>

\* getEnergyData rejects in fetchData: the catch block, then the finally
\* block.
FetchRejects ==
  /\ variant = "useEffect"
  /\ effects = {}
  /\ \E f \in fetches : fetches' = fetches \ {f}
  /\ error' = Just("Failed to fetch data")
  /\ loading' = FALSE
  /\ retried' = FALSE
  /\ UNCHANGED <<variant, results, data, currentPvKw, currentScenario,
                 currentKpis, isApplying, query, mutation, timers, effects>>
  /\ UNCHANGED <<engineVars, loggerVars, apiVars>>

\* The query's fetch resolves.
QueryResolves ==
  /\ variant # "useEffect"
  /\ effects = {}
  /\ query.fetching
  /\ \E response \in DashboardResponses : data' = Just(response)
  /\ error' = Nothing
  /\ query' = [status |-> "success", fetching |-> FALSE]
  /\ retried' = FALSE
  /\ UNCHANGED <<variant, results, loading, currentPvKw, currentScenario,
                 currentKpis, isApplying, mutation, timers, fetches>>
  /\ effects' = Scheduled
  /\ UNCHANGED <<engineVars, loggerVars, apiVars>>

\* The query's fetch rejects, its one retry included.
QueryRejects ==
  /\ variant # "useEffect"
  /\ effects = {}
  /\ query.fetching
  /\ error' = Just("Failed to fetch data")
  /\ query' = [status |-> "error", fetching |-> FALSE]
  /\ retried' = FALSE
  /\ UNCHANGED <<variant, results, data, loading, currentPvKw,
                 currentScenario, currentKpis, isApplying, mutation, timers,
                 fetches, effects>>
  /\ UNCHANGED <<engineVars, loggerVars, apiVars>>

\* handlePvConfigApply(newPvKw), up to its await.
HandlePvConfigApply ==
  /\ Page = "dashboard"
  /\ ~ConfiguratorIsLoading
  /\ effects = {}
  /\ \E newPvKw \in ConfiguratorValues :
       timers' = timers \cup {[newPvKw |-> newPvKw, data |-> data]}
  /\ IF variant = "useMutation"
     THEN /\ mutation' = [status |-> "pending", data |-> Nothing]
          /\ UNCHANGED isApplying
     ELSE /\ isApplying' = (data # Nothing)
          /\ UNCHANGED mutation
  /\ retried' = FALSE
  /\ UNCHANGED <<variant, results, data, loading, error, currentPvKw,
                 currentScenario, currentKpis, query, fetches>>
  /\ effects' = Scheduled
  /\ UNCHANGED <<engineVars, loggerVars, apiVars>>

\* The rest of handlePvConfigApply of the useEffect version.
ApplyAfterTimer(t) ==
  LET result == DashboardCalculate(variant, t.data[1].baseline, t.newPvKw)
  IN /\ IF result.err = ""
        THEN /\ currentScenario' = Displayed(result).scenario
             /\ currentKpis' = Displayed(result).kpis
             /\ currentPvKw' = t.newPvKw
             /\ UNCHANGED error
        ELSE /\ error' = Just(result.err)
             /\ UNCHANGED <<currentScenario, currentKpis, currentPvKw>>
     /\ isApplying' = FALSE
     /\ UNCHANGED mutation

\* The rest of mutationFn, and the mutation settling.
MutationAfterTimer(t) ==
  LET result == DashboardCalculate(variant, t.data[1].baseline, t.newPvKw)
  IN /\ mutation' =
          IF result.err = ""
          THEN [status |-> "success",
                data |-> Just([newPvKw |-> t.newPvKw, result |-> result])]
          ELSE [status |-> "error", data |-> Nothing]
     /\ UNCHANGED <<currentScenario, currentKpis, currentPvKw, error,
                    isApplying>>

\* The rest of handlePvConfigApply of the useQuery version.
SetAfterTimer(t) ==
  /\ currentPvKw' = t.newPvKw
  /\ isApplying' = FALSE
  /\ UNCHANGED <<currentScenario, currentKpis, error, mutation>>

\* The timer of an apply fires.
TimerFires ==
  /\ effects = {}
  /\ \E t \in timers :
       /\ timers' = timers \ {t}
       /\ CASE variant = "useEffect" -> ApplyAfterTimer(t)
            [] variant = "useMutation" -> MutationAfterTimer(t)
            [] variant = "useQuery" -> SetAfterTimer(t)
  /\ retried' = FALSE
  /\ UNCHANGED <<variant, results, data, loading, query, fetches>>
  /\ effects' = Scheduled
  /\ UNCHANGED <<engineVars, loggerVars, apiVars>>

\* refetch() of useQuery: a query that never had data is pending again.
Refetch ==
  /\ query' = [status |-> IF data = Nothing THEN "pending" ELSE query.status,
               fetching |-> TRUE]
  /\ error' = IF data = Nothing THEN Nothing ELSE error
  /\ UNCHANGED currentPvKw

\* setError(null); setCurrentPvKw(prev => prev)
ResetError ==
  /\ error' = Nothing
  /\ currentPvKw' = currentPvKw
  /\ UNCHANGED query

\* handleRetry(), from the button of the error state.
HandleRetry ==
  /\ Page = "error"
  /\ effects = {}
  /\ IF variant = "useEffect" THEN ResetError ELSE Refetch
  /\ retried' = TRUE
  /\ UNCHANGED <<variant, results, data, loading, currentScenario,
                 currentKpis, isApplying, mutation, timers, fetches>>
  /\ effects' = Scheduled
  /\ UNCHANGED <<engineVars, loggerVars, apiVars>>

DashboardNext ==
  \/ RunEffects
  \/ FetchResolves
  \/ FetchRejects
  \/ QueryResolves
  \/ QueryRejects
  \/ HandlePvConfigApply
  \/ TimerFires
  \/ HandleRetry

\* The page in any of its versions.
DashboardMounted ==
  /\ EngineInit
  /\ LoggerInit
  /\ ApiInit
  /\ \E v \in DashboardVariants : DashboardInit(v)

DashboardSpec == DashboardMounted /\ [][DashboardNext]_vars

\* A timer that was set fires, and the effects of a commit run.
DashboardLiveSpec ==
  DashboardSpec /\ WF_vars(TimerFires) /\ WF_vars(RunEffects)

(***************************************************************************)
(* Properties of calculateScenario                                         *)
(***************************************************************************)
\* Two equal-length series of finite, non-negative numbers.
ValidBaseline(b) ==
  /\ Len(b.consumption) = Len(b.pv_generation)
  /\ \A k \in 1..Len(b.consumption) :
       IsFinite(b.consumption[k]) /\ Ge(b.consumption[k], Zero)
  /\ \A k \in 1..Len(b.pv_generation) :
       IsFinite(b.pv_generation[k]) /\ Ge(b.pv_generation[k], Zero)

\* Merged options in their documented domains.
ValidOptions(o) ==
  /\ IsFinite(o.hours_per_day) /\ Gt(o.hours_per_day, Zero)
  /\ Ge(o.self_consumption_share, Zero)
  /\ Le(o.self_consumption_share, Num(1, 1))
  /\ IsFinite(o.co2_emission_factor) /\ Gt(o.co2_emission_factor, Zero)

\* The indices the scenario has so far.
Computed == 1..Len(scenario.consumption)

NegativeCapacityRejected ==
  [][/\ (pc = "start" /\ Lt(pvKw, Zero))
          => /\ pc' = "error"
             /\ err' = NegativeCapacityError
             /\ i' = 0
             /\ scenario' = EmptyScenario
             /\ kpis' = NoKpis
             /\ baseline' = baseline
             /\ options' = options
     /\ pc = "error" => pc' = "idle"]_vars

NegativeCapacityRejectedWitness ==
  /\ pc = "error"
  /\ err = NegativeCapacityError
  /\ Lt(pvKw, Zero)
  /\ Len(baseline.consumption) > 0
  /\ options = customOptions

\* C3: with a valid baseline, a capacity >= 0, hours_per_day > 0 and a
\* self-consumption share in [0,1], no interval's scenario consumption
\* exceeds its baseline consumption.
ConsumptionNeverIncreases ==
  (/\ pc \in {"loop", "done"}
   /\ ValidBaseline(baseline)
   /\ Ge(pvKw, Zero)
   /\ Gt(opts.hours_per_day, Zero)
   /\ Ge(opts.self_consumption_share, Zero)
   /\ Le(opts.self_consumption_share, Num(1, 1)))
    => \A k \in Computed :
         Le(scenario.consumption[k], baseline.consumption[k])

ConsumptionNeverIncreasesWitness ==
  /\ pc = "done"
  /\ ValidBaseline(baseline)
  /\ Gt(pvKw, Zero)
  /\ Gt(opts.hours_per_day, Zero)
  /\ Gt(opts.self_consumption_share, Zero)
  /\ Le(opts.self_consumption_share, Num(1, 1))
  /\ Len(scenario.consumption) >= 2
  /\ \A k \in Computed : Lt(scenario.consumption[k], baseline.consumption[k])

\* C4: with a valid baseline, a capacity >= 0 and hours_per_day > 0, no
\* interval's scenario generation is below its baseline generation.
GenerationNeverDecreases ==
  (/\ pc \in {"loop", "done"}
   /\ ValidBaseline(baseline)
   /\ Ge(pvKw, Zero)
   /\ Gt(opts.hours_per_day, Zero))
    => \A k \in Computed :
         Ge(scenario.pv_generation[k], baseline.pv_generation[k])

GenerationNeverDecreasesWitness ==
  /\ pc = "done"
  /\ ValidBaseline(baseline)
  /\ Gt(pvKw, Zero)
  /\ Gt(opts.hours_per_day, Zero)
  /\ \E k \in Computed :
       /\ baseline.pv_generation[k] = Zero
       /\ Gt(scenario.pv_generation[k], Zero)
  /\ \E k \in Computed :
       /\ Gt(baseline.pv_generation[k], Zero)
       /\ Lt(baseline.pv_generation[k], MathMaxOf(baseline.pv_generation))
       /\ Gt(scenario.pv_generation[k], baseline.pv_generation[k])

ExtremeCapacityCall ==
  /\ pc = "done"
  /\ baseline = mockBaseline
  /\ pvKw = Num(1000, 1)
  /\ options = NoOptions

\* C6 as the specification states it: in the example call every scenario
\* consumption equals exactly 0.2 times the baseline consumption.
ExtremeCapacityFloorSaturates ==
  ExtremeCapacityCall
    => \A k \in Computed :
         scenario.consumption[k] = Mul(baseline.consumption[k], Num(2, 10))

\* C6 as the code has it: in the example call the scenario consumption is
\* 110, 108, 105, 93, 52, 40, 80, 115, every value strictly above 0.2 times
\* the baseline consumption: the floor is reached at no index.
ExtremeCapacityExample ==
  ExtremeCapacityCall
    => /\ scenario.consumption = Nums(<<110, 108, 105, 93, 52, 40, 80, 115>>)
       /\ \A k \in Computed :
            Gt(scenario.consumption[k],
               Mul(baseline.consumption[k], Num(2, 10)))

ExtremeCapacityExampleWitness ==
  ExtremeCapacityCall /\ Len(scenario.consumption) = 8

\* C7 as the specification states it: a baseline whose two series differ in
\* length never yields a returned result.
LengthMismatchIsError ==
  Len(baseline.consumption) # Len(baseline.pv_generation) => pc # "done"

\* Every value of the returned scenario and every KPI is finite and >= 0.
ResultWellDefined ==
  /\ \A k \in 1..Len(scenario.consumption) :
       IsFinite(scenario.consumption[k]) /\ Ge(scenario.consumption[k], Zero)
  /\ \A k \in 1..Len(scenario.pv_generation) :
       /\ IsFinite(scenario.pv_generation[k])
       /\ Ge(scenario.pv_generation[k], Zero)
  /\ \A f \in DOMAIN kpis : IsFinite(kpis[f]) /\ Ge(kpis[f], Zero)

\* C8: the only error is the one for a negative capacity, and a call with a
\* capacity >= 0, a valid baseline and options in their domains returns a
\* result whose scenario values and KPIs are all finite and non-negative.
Totality ==
  /\ pc = "error" => (Lt(pvKw, Zero) /\ err = NegativeCapacityError)
  /\ (pc = "done" /\ ValidBaseline(baseline) /\ ValidOptions(opts))
       => ResultWellDefined

TotalityWitness ==
  /\ pc = "done"
  /\ ValidBaseline(baseline)
  /\ ValidOptions(opts)
  /\ pvKw = Num(1000, 1)
  /\ Len(baseline.consumption) >= 2
  /\ \A k \in 1..Len(baseline.consumption) :
       baseline.consumption[k] = Zero /\ baseline.pv_generation[k] = Zero
  /\ ResultWellDefined

\* r is x rounded to a multiple of 1/scale: scale * r is an integer at most
\* one half away from scale * x.
IsRounded(r, x, scale) ==
  LET scaled == Mul(r, Num(scale, 1))
      exact == Mul(x, Num(scale, 1))
  IN /\ IsFinite(scaled)
     /\ scaled.d = 1
     /\ Le(Sub(scaled, exact), Num(1, 2))
     /\ Le(Sub(exact, scaled), Num(1, 2))

\* C9: the KPIs of a returned result (valid baseline) are the rounded
\* aggregates of the returned scenario and the baseline of the call: the
\* total to 1 decimal, the coverage to 1 decimal when the baseline total is
\* not zero, the CO2 savings to 3 decimals.
KpiConsistency ==
  (pc = "done" /\ ValidBaseline(baseline) /\ IsFinite(opts.co2_emission_factor))
    => LET baseTotal == Sum(baseline.consumption)
           scenTotal == Sum(scenario.consumption)
           pvTotal == Sum(scenario.pv_generation)
       IN /\ IsRounded(kpis.total_consumption_kwh, scenTotal, 10)
          /\ baseTotal # Zero
               => IsRounded(kpis.pv_coverage_pct,
                            Div(Mul(Num(100, 1), pvTotal), baseTotal), 10)
          /\ IsRounded(kpis.co2_savings_ton,
                       Div(Mul(Sub(baseTotal, scenTotal),
                               opts.co2_emission_factor), Num(1000, 1)),
                       1000)

KpiConsistencyWitness ==
  /\ pc = "done"
  /\ ValidBaseline(baseline)
  /\ Gt(pvKw, Zero)
  /\ Sum(baseline.consumption) # Zero
  /\ Gt(kpis.co2_savings_ton, Zero)
  /\ Mul(kpis.co2_savings_ton, Num(100, 1)).d # 1
  /\ kpis.total_consumption_kwh # Sum(scenario.consumption)

\* C10: for a baseline of two empty series and a capacity >= 0, whatever the
\* options, both returned scenario arrays are empty and the three KPIs are 0.
EmptySeries ==
  (/\ pc = "done"
   /\ baseline.consumption = <<>>
   /\ baseline.pv_generation = <<>>
   /\ Ge(pvKw, Zero))
    => /\ scenario.consumption = <<>>
       /\ scenario.pv_generation = <<>>
       /\ kpis.total_consumption_kwh = Zero
       /\ kpis.pv_coverage_pct = Zero
       /\ kpis.co2_savings_ton = Zero

EmptySeriesWitness ==
  /\ pc = "done"
  /\ baseline = EmptyScenario
  /\ pvKw = Num(1000, 1)
  /\ options = customOptions
  /\ kpis # NoKpis

\* C11: whenever the baseline's total consumption is 0, for any length of
\* the series and any added generation, pv_coverage_pct is exactly 0.
CoverageGuard ==
  (pc = "done" /\ Sum(baseline.consumption) = Zero)
    => kpis.pv_coverage_pct = Zero

CoverageGuardWitness ==
  /\ pc = "done"
  /\ ValidBaseline(baseline)
  /\ Len(baseline.consumption) >= 2
  /\ Sum(baseline.consumption) = Zero
  /\ Gt(Sum(scenario.pv_generation), Zero)
  /\ kpis.pv_coverage_pct = Zero

\* C12: for a valid baseline of length N and a capacity >= 0 the two scenario
\* arrays grow together, one element per baseline index, end with length N,
\* and element k of each is the value computed from the baseline's element k.
LengthAndOrderPreserved ==
  (pc \in {"loop", "done"} /\ ValidBaseline(baseline) /\ Ge(pvKw, Zero))
    => /\ Len(scenario.consumption) = i
       /\ Len(scenario.pv_generation) = i
       /\ pc = "done" => i = Len(baseline.consumption)
       /\ \A k \in 1..i :
            /\ k <= Len(baseline.consumption)
            /\ scenario.pv_generation[k] =
                 NewPvGeneration(baseline.pv_generation[k], pvKw,
                                 AdditionalPvPerHour(pvKw, opts.hours_per_day),
                                 baseline.pv_generation)
            /\ scenario.consumption[k] =
                 NewConsumption(baseline.consumption[k],
                                AdditionalPv(scenario.pv_generation[k],
                                             baseline.pv_generation[k]),
                                opts.self_consumption_share)

LengthAndOrderPreservedWitness ==
  /\ pc = "done"
  /\ ValidBaseline(baseline)
  /\ Gt(pvKw, Zero)
  /\ Len(scenario.consumption) = Len(baseline.consumption)
  /\ Len(scenario.consumption) >= 2
  /\ scenario.consumption[1] # scenario.consumption[2]
  /\ scenario.pv_generation[1] # scenario.pv_generation[2]

\* C13: no step of a call, successful or failing, changes the baseline, the
\* options object, the capacity or DEFAULT_CALCULATION_OPTIONS, and the two
\* arrays of the scenario are new objects: neither is one of the baseline's
\* arrays, and they are not one another.
InputsNeverModified ==
  [][/\ (pc # "idle" /\ pc' # "idle")
          => /\ baseline' = baseline
             /\ options' = options
             /\ pvKw' = pvKw
     /\ defaults' = defaults
     /\ defaults' = DEFAULT_CALCULATION_OPTIONS
     /\ pc' \in {"loop", "done"}
          => /\ scenarioArrays'.consumption # BaselineArrays.consumption
             /\ scenarioArrays'.consumption # BaselineArrays.pv_generation
             /\ scenarioArrays'.pv_generation # BaselineArrays.consumption
             /\ scenarioArrays'.pv_generation # BaselineArrays.pv_generation
             /\ scenarioArrays'.consumption # scenarioArrays'.pv_generation
             /\ scenarioArrays' # NoArrays]_vars

InputsNeverModifiedWitness ==
  /\ pc = "done"
  /\ pvKw = Zero
  /\ options = customOptions
  /\ Len(baseline.consumption) >= 2
  /\ scenario = baseline
  /\ scenarioArrays # BaselineArrays

\* The options object completed by hand: every field the caller left out is
\* given as the number 4, 0.6 or 0.4.
FilledOptions(o) ==
  [hours_per_day |->
     IF o.hours_per_day = Absent THEN Num(4, 1) ELSE o.hours_per_day,
   self_consumption_share |->
     IF o.self_consumption_share = Absent THEN Num(6, 10)
     ELSE o.self_consumption_share,
   co2_emission_factor |->
     IF o.co2_emission_factor = Absent THEN Num(4, 10)
     ELSE o.co2_emission_factor]

SuppliedFields(o) == {k \in DOMAIN o : o[k] # Absent}

\* C14: whichever fields the caller supplies, the call gives what a call
\* with the full options object gives, the fields left out being 4, 0.6 and
\* 0.4; a call without options gives what the three defaults given
\* explicitly give.
OptionDefaulting ==
  pc \in {"done", "error"}
    => Outcome = CalculateScenario(baseline, pvKw, FilledOptions(options))

OptionDefaultingWitness ==
  /\ pc = "done"
  /\ Cardinality(SuppliedFields(options)) = 2
  /\ Gt(pvKw, Zero)
  /\ ValidBaseline(baseline)
  /\ Len(baseline.consumption) >= 2
  /\ Outcome = CalculateScenario(baseline, pvKw, FilledOptions(options))
  /\ Outcome # CalculateScenario(baseline, pvKw, FilledOptions(NoOptions))
  /\ Outcome # CalculateScenario(baseline, pvKw, customOptions)

\* C15 as stated: with default options, a capacity > 0 and a valid baseline
\* of positive total consumption, the reported total is strictly below the
\* baseline's total and co2_savings_ton is strictly above 0.
PositiveCapacityReportsSavings ==
  (/\ pc = "done"
   /\ options = NoOptions
   /\ Gt(pvKw, Zero)
   /\ ValidBaseline(baseline)
   /\ Gt(Sum(baseline.consumption), Zero))
    => /\ Lt(kpis.total_consumption_kwh, Sum(baseline.consumption))
       /\ Gt(kpis.co2_savings_ton, Zero)

\* The example call with the test-suite's custom options: 10 kW.
CustomOptionsCall ==
  /\ pc = "done"
  /\ baseline = mockBaseline
  /\ pvKw = Num(10, 1)
  /\ options = customOptions

\* co2_savings_ton of the example baseline at 10 kW with default options.
DefaultRunCo2 ==
  CalculateScenario(mockBaseline, Num(10, 1),
                    FilledOptions(NoOptions)).kpis.co2_savings_ton

\* C16 as the specification states it: the custom run's co2_savings_ton is
\* the default run's scaled by the ratio of the emission factors, 0.5 / 0.4.
EmissionFactorProportional ==
  CustomOptionsCall
    => kpis.co2_savings_ton = Mul(DefaultRunCo2, Div(Num(5, 10), Num(4, 10)))

\* C16 as the code has it: the custom run saves 6.6 kWh and reports 0.003 t,
\* the default run saves 3.3 kWh and reports 0.001 t; the ratio of the two
\* reports is 3, since hours_per_day and self_consumption_share change the
\* savings themselves.
EmissionFactorExample ==
  CustomOptionsCall
    => /\ Sub(Sum(baseline.consumption), Sum(scenario.consumption))
            = Num(66, 10)
       /\ kpis.co2_savings_ton = Num(3, 1000)
       /\ DefaultRunCo2 = Num(1, 1000)
       /\ kpis.co2_savings_ton = Mul(DefaultRunCo2, Num(3, 1))

EmissionFactorExampleWitness ==
  CustomOptionsCall /\ IsFinite(kpis.co2_savings_ton)

\* The merge with the defaults as the module defines them.
StandaloneOptions(o) ==
  [k \in DOMAIN DEFAULT_CALCULATION_OPTIONS |->
     IF o[k] = Absent THEN DEFAULT_CALCULATION_OPTIONS[k] ELSE o[k]]

\* C17: whatever calls came before, a call gives what the same call gives
\* when it is the only one ever made, so equal arguments give equal results,
\* and the one module-level object is as the module created it.
NonInterference ==
  /\ defaults = DEFAULT_CALCULATION_OPTIONS
  /\ pc \in {"done", "error"}
       => Outcome =
            CalculateScenario(baseline, pvKw, StandaloneOptions(options))

NonInterferenceWitness ==
  /\ pc = "done"
  /\ options = NoOptions
  /\ Len(earlierCalls) = 2
  /\ earlierCalls[1].options = customOptions
  /\ Lt(earlierCalls[2].pvKw, Zero)
  /\ Outcome = CalculateScenario(baseline, pvKw, DEFAULT_CALCULATION_OPTIONS)

\* C18 as stated: after any sequence of calls the logger holds at most the
\* configured maxEntries entries.
SizeCap == Len(logs) <= config.maxEntries

\* C19: getLogs() and exportLogs() list the entries newest first, the
\* reverse of the order they were logged in, the entry of a call just
\* accepted being first; getLogs(level) is exactly the held entries of that
\* level, newest first as well.
LoggerOrdering ==
  /\ \A j, k \in 1..Len(logs) : j < k => logs[j].id > logs[k].id
  /\ (lastCall.op \in LogLevels /\ config.maxEntries >= 1)
       => logs[1] = LogEntry(created, lastCall.op)
  /\ GetLogs(NoLevel) = logs
  /\ [k \in 1..Len(ExportLogs) |-> Parse(ExportLogs[k])] = logs
  /\ \A level \in LogLevels :
       LET got == GetLogs(level)
       IN /\ {got[k] : k \in 1..Len(got)} =
               {logs[k] : k \in {j \in 1..Len(logs) : logs[j].level = level}}
          /\ \A j, k \in 1..Len(got) : j < k => got[j].id > got[k].id

LoggerOrderingWitness ==
  /\ lastCall.op \in LogLevels
  /\ Len(logs) = 3
  /\ logs[1].level = "warn"
  /\ logs[2].level = "error"
  /\ logs[3].level = "warn"
  /\ GetLogs("warn") = <<logs[1], logs[3]>>
  /\ ExportLogs[1] = Stringify(LogEntry(3, "warn"))

\* C20 as stated: a call that logs or clears invokes every listener that
\* stays subscribed, and no listener is invoked once its unsubscribe
\* function has been called.
SubscriptionContract ==
  /\ lastCall.op \in LogLevels \cup {"clearLogs"}
       => \A k \in 1..Len(lastCall.listeners) :
            (\E j \in 1..Len(listeners) : listeners[j] = lastCall.listeners[k])
              => \E c \in 1..Len(lastCall.calls) :
                   lastCall.calls[c].listener = lastCall.listeners[k]
  /\ \A c \in 1..Len(lastCall.calls) : ~lastCall.calls[c].unsubscribed

\* The three-case rule for the generation of the baseline's interval k.
GenerationReference(b, k, p, hours) ==
  LET perHour == Div(Mul(p, hours), Num(24, 1))
      base == b.pv_generation[k]
  IN IF p = Zero THEN base
     ELSE IF Gt(base, Zero)
          THEN Add(base, Div(Mul(perHour, base), MathMaxOf(b.pv_generation)))
          ELSE Mul(perHour, Num(1, 10))

Smaller(x, y) == IF Le(x, y) THEN x ELSE y

Larger(x, y) == IF Ge(x, y) THEN x ELSE y

\* The reduction the rule allows at the baseline's interval k.
ReductionReference(b, scen, k, share) ==
  Smaller(Mul(Sub(scen.pv_generation[k], b.pv_generation[k]), share),
          Mul(Num(8, 10), b.consumption[k]))

ScenarioAt(p) == CalculateScenario(baseline, p, opts).scenario

\* C28: for a valid baseline and valid options, the scenario of a capacity
\* has, at every interval, at least the generation and at most the
\* consumption of the scenario of any smaller capacity >= 0.
MonotoneInCapacity ==
  (pc = "done" /\ ValidBaseline(baseline) /\ ValidOptions(opts))
    => \A p1 \in PvKwValues :
         (Ge(p1, Zero) /\ Le(p1, pvKw))
           => LET smaller == ScenarioAt(p1)
              IN \A k \in Computed :
                   /\ Ge(scenario.pv_generation[k], smaller.pv_generation[k])
                   /\ Le(scenario.consumption[k], smaller.consumption[k])

MonotoneInCapacityWitness ==
  /\ pc = "done"
  /\ ValidBaseline(baseline)
  /\ ValidOptions(opts)
  /\ pvKw = Num(1000, 1)
  /\ Len(scenario.consumption) = 2
  /\ \A k \in Computed :
       /\ Gt(scenario.pv_generation[k],
             ScenarioAt(Num(10, 1)).pv_generation[k])
       /\ Lt(scenario.consumption[k], ScenarioAt(Num(10, 1)).consumption[k])
       /\ Lt(ScenarioAt(Num(10, 1)).consumption[k],
             ScenarioAt(Zero).consumption[k])

\* C29: for every baseline and capacity, a call without options gives what
\* the copy inlined in the dashboard component gives: the same error, or
\* value-equal scenario arrays and KPIs.
InlineCopyEquivalent ==
  (pc \in {"done", "error"} /\ options = NoOptions)
    => Outcome = InlineCalculateScenario(baseline, pvKw)

InlineCopyEquivalentWitness ==
  /\ pc = "done"
  /\ options = NoOptions
  /\ Gt(pvKw, Zero)
  /\ Len(scenario.consumption) = 2
  /\ scenario.consumption # baseline.consumption
  /\ Gt(kpis.co2_savings_ton, Zero)
  /\ Outcome = InlineCalculateScenario(baseline, pvKw)

\* C30: between calls the guard is never set; a call of error, warn, info
\* or debug made by the application is accepted and adds one entry, writes
\* to localStorage once and runs one round of notification, however many
\* log calls its listeners issue meanwhile and whatever throws; in any call
\* the entries added, the writes and the rounds go together.
ReentrancyGuard ==
  /\ isLogging = FALSE
  /\ lastCall.op \in LogLevels
       => /\ lastCall.added = 1
          /\ lastCall.setItems = 1
          /\ Len(lastCall.calls) <= Len(lastCall.listeners)
          /\ \A c \in 1..Len(lastCall.calls) :
               /\ lastCall.calls[c].listener = lastCall.listeners[c]
               /\ lastCall.calls[c].logs = logs
          /\ config.maxEntries >= 1 => logs[1] = LogEntry(created, lastCall.op)
  /\ lastCall.op = "clearLogs"
       => /\ lastCall.setItems = lastCall.added + 1
          /\ Len(lastCall.calls) <=
               (lastCall.added + 1) * Len(lastCall.listeners)

ReentrancyGuardWitness ==
  /\ lastCall.op = "error"
  /\ lastCall.listeners = <<"relogger", "thrower">>
  /\ Len(lastCall.calls) = 2
  /\ lastCall.rejected = 1
  /\ storage # StringifyLogs(logs)
  /\ created = 2
  /\ Len(logs) = 2
  /\ logs[2].level = "warn"

(***************************************************************************)
(* Properties of the dashboard page                                        *)
(***************************************************************************)
\* The scenario and the KPIs on the page are those of one call of
\* calculateScenario on the loaded baseline with some capacity.
FromOneCall ==
  \E p \in ConfiguratorValues :
    LET result == DashboardCalculate(variant, data[1].baseline, p)
    IN /\ result.err = ""
       /\ currentScenario = Just(result.scenario)
       /\ currentKpis = Just(result.kpis)

Paired ==
  /\ (currentScenario = Nothing) <=> (currentKpis = Nothing)
  /\ currentKpis # Nothing => (data # Nothing /\ FromOneCall)

\* An apply of the capacity p waits for its timer.
Applying(p) == \E t \in timers : t.newPvKw = p

\* The page holds the capacity p with the result computed for it, and the
\* configurator is free again.
Shown(p) ==
  /\ currentPvKw = p
  /\ data # Nothing
  /\ LET result == DashboardCalculate(variant, data[1].baseline, p)
     IN /\ currentScenario = Just(result.scenario)
        /\ currentKpis = Just(result.kpis)
  /\ ~ConfiguratorIsLoading

\* C23: the scenario and the KPIs on the page always come from one call of
\* calculateScenario on the loaded baseline, and an apply of a capacity leads
\* to the page holding that capacity, the scenario and the KPIs computed for
\* it, and a configurator that is no longer loading.
ResultPairing ==
  /\ []Paired
  /\ \A p \in ConfiguratorValues : Applying(p) ~> Shown(p)

ResultPairingWitness ==
  /\ timers = {}
  /\ effects = {}
  /\ Page = "dashboard"
  /\ Shown(Num(25, 1))
  /\ data = Just([baseline |-> sessionBaseline])

\* A fetch of the data is scheduled or under way.
FetchStarted ==
  IF variant = "useEffect" THEN "fetch" \in effects \/ fetches # {}
  ELSE query.fetching

\* C24: when the retry handler has run from the error state, a new fetch of
\* the data is scheduled or under way.
RetryFetches == retried => FetchStarted

(***************************************************************************)
(* Properties of getEnergyData                                             *)
(***************************************************************************)
\* The call took one of the paths on which the data is not the response's.
FallbackTaken ==
  \/ apiResponse = NoResponse
  \/ ~Ok(apiResponse)
  \/ apiText = "rejected"
  \/ JsonParseThrows(apiResponse.body)

\* C25: the promise of getEnergyData is never rejected; it is fulfilled with
\* the fallback mock data when fetch threw, when the response was not ok,
\* when its text could not be read or was not JSON, and with the parsed body
\* of the response otherwise.
ApiFallback ==
  /\ apiPromise.state # "rejected"
  /\ apiPc = "settled"
       => /\ apiPromise.state = "fulfilled"
          /\ apiPromise.value =
               IF FallbackTaken THEN GetFallbackMockData
               ELSE JsonParse(apiResponse.body)

ApiFallbackWitness ==
  /\ apiPc = "settled"
  /\ Ok(apiResponse)
  /\ apiText = "<!doctype html>"
  /\ apiPromise = Fulfilled(GetFallbackMockData)

====
